---- MODULE Spec2Model ----
(***************************************************************************)
(* Model of pkisensee/yaml: the scalar encoder (Yaml::GetSpecialChars,     *)
(* Yaml::CreateSafeScalar) and the event-driven scanner YamlParser::Parse. *)
(*                                                                         *)
(* Bytes are numbers 0..255; a text is a sequence of bytes.  Positions are *)
(* 1-based: curr = 1 is the first byte and end = Len(text) + 1 is "one     *)
(* beyond the last char".  size_t values that the code lets wrap           *)
(* (col_ in SkipSpaces, kNoLevel) are held as the signed representative    *)
(* of their residue: -1 stands for size_t(-1).                             *)
(***************************************************************************)
EXTENDS Integers, Sequences, FiniteSets, TLC

\* ---------------------------------------------------------------- bytes
NUL       == 0
TAB       == 9
LF        == 10
CR        == 13
SP        == 32
BANG      == 33
DQUOTE    == 34
HASH      == 35
PERCENT   == 37
AMP       == 38
SQUOTE    == 39
STAR      == 42
COMMA     == 44
DASH      == 45
COLON     == 58
GT        == 62
QMARK     == 63
AT        == 64
LBRACKET  == 91
RBRACKET  == 93
BACKTICK  == 96
LBRACE    == 123
PIPE      == 124
RBRACE    == 125

kInvalidPos     == -1
kNoLevel        == -1
kLowerBound     == 32
kUpperBound     == 122
kMaxStackSize   == 32
kQuoteChars     == 2

\* '!', '"', '#', '$', '%', '&', ''', '*', ',', '-',
\* '/', ':', '<', '=', '>', '?', '@', '[', '\', ']', '`'
kSpecialChar == {33, 34, 35, 36, 37, 38, 39, 42, 44, 45,
                 47, 58, 60, 61, 62, 63, 64, 91, 92, 93, 96}

kIndentChars   == {SP, DASH}
kIgnoreIndent  == {CR, LF, HASH}
kEndLine       == {CR, LF}
kIsWhite       == {SP, CR, LF, NUL}
kEndScalar     == {COMMA, COLON, TAB, CR, LF, RBRACKET, RBRACE, HASH}
\* kImportantChar without the closing square bracket
kImportantCharNoBracket == {COLON, TAB, CR, LF, COMMA, RBRACE, HASH}
kImportantChar == {COLON, TAB, CR, LF, COMMA, RBRACKET, RBRACE, HASH}
kUnsupported   == {PIPE, GT, QMARK, AMP, STAR, BANG, AT, BACKTICK}

\* the literal "null" of HandleMissingNull
kNull == <<110, 117, 108, 108>>

\* ---------------------------------------------------------------- bounds
\* longest text enumerated exhaustively over Alphabet
MaxLen == 3
\* longest scalar handed to the encoder, over ScalarAlphabet
MaxScalarLen == 3

\* bytes of the exhaustively enumerated texts:
\* 'a', ':', ' ', LF, '-', '}', TAB, single quote, '#'
Alphabet == {97, COLON, SP, LF, DASH, RBRACE, TAB, SQUOTE, HASH}
\* bytes of the scalars handed to the encoder:
\* 'a', 'z', '{' (first byte above kUpperBound), both quotes, ':', ' ', 0x1F
ScalarAlphabet == {97, kUpperBound, LBRACE, SQUOTE, DQUOTE, COLON, SP, 31}
\* what a read of the byte at the end-of-buffer position may return
PastEndBytes == {NUL, COLON, RBRACE, 97}

\* lines of the deeply nested fixture, each indented one space more than the last
MaxDepth == 32

RECURSIVE SeqsUpTo(_, _)
SeqsUpTo(S, n) ==
  IF n = 0 THEN {<<>>}
  ELSE LET shorter == SeqsUpTo(S, n - 1)
       IN shorter \cup {Append(t, b) : t \in {u \in shorter : Len(u) = n - 1}, b \in S}

Range(s) == {s[i] : i \in 1..Len(s)}

\* ---------------------------------------------------------------- encoder
\* Yaml::Special( bool ): every other member keeps its default
SpecialOf(has) ==
  [firstSpecialPos |-> 0, firstSingleQuote |-> 0, firstDoubleQuote |-> 0,
   hasSpecialChars |-> has, specialChar |-> NUL]

\* the "already quoted" test of GetSpecialChars
IsPreQuoted(scalar) ==
  /\ Len(scalar) > 2
  /\ scalar[1] \in {SQUOTE, DQUOTE}
  /\ scalar[1] = scalar[Len(scalar)]

\* the first loop of GetSpecialChars, for table entry c: positions are 0-based,
\* byte i of the code is scalar[i + 1] here
RECURSIVE ScanLetter(_, _, _, _)
ScanLetter(scalar, c, i, letter) ==
  IF i >= Len(scalar) THEN letter
  ELSE ScanLetter(scalar, c, i + 1,
         IF scalar[i + 1] = c /\ letter.firstPos = 0
         THEN [firstPos |-> i, found |-> TRUE]
         ELSE letter)

Letter(scalar, c) == ScanLetter(scalar, c, 0, [firstPos |-> 0, found |-> FALSE])

\* NeedsQuoting with the upper bound taken inclusively ("c >= kUpperBound")
NeedsQuotingOffByOne(c) == (c < kLowerBound) \/ (c >= kUpperBound) \/ (c \in kSpecialChar)

\* the test of the second loop: c needs quoting
NeedsQuoting(c) == (c < kLowerBound) \/ (c > kUpperBound) \/ (c \in kSpecialChar)

\* a < b on size_t, with -1 standing for size_t(-1)
ULess(a, b) == IF a = -1 THEN FALSE ELSE IF b = -1 THEN TRUE ELSE a < b

\* the second loop of GetSpecialChars: entries that are not found change nothing,
\* and the found entries are those of the bytes of the scalar
LowestPosition(scalar) ==
  LET cand == {Letter(scalar, c).firstPos : c \in {b \in Range(scalar) : NeedsQuoting(b)}}
  IN IF cand = {} THEN kInvalidPos
     ELSE CHOOSE p \in cand : \A q \in cand : ~ULess(q, p)

FirstOf(scalar, c) ==
  IF Letter(scalar, c).found THEN Letter(scalar, c).firstPos ELSE kInvalidPos

GetSpecialChars(scalar) ==
  IF scalar = <<>> THEN SpecialOf(FALSE)
  ELSE IF IsPreQuoted(scalar) THEN SpecialOf(FALSE)
  ELSE IF LowestPosition(scalar) = kInvalidPos THEN SpecialOf(FALSE)
  ELSE [firstSpecialPos  |-> LowestPosition(scalar),
        firstSingleQuote |-> FirstOf(scalar, SQUOTE),
        firstDoubleQuote |-> FirstOf(scalar, DQUOTE),
        hasSpecialChars  |-> TRUE,
        specialChar      |-> scalar[LowestPosition(scalar) + 1]]

\* the assertion of CreateSafeScalar
QuoteAssertHolds(special) ==
  ~(ULess(special.firstDoubleQuote, kInvalidPos) /\ ULess(special.firstSingleQuote, kInvalidPos))

\* QuoteFor without the switch to the double quote
QuoteForSingleOnly(special) == IF special.hasSpecialChars THEN SQUOTE ELSE NUL

\* the quote CreateSafeScalar picks; NUL is no quote
QuoteFor(special) ==
  IF special.hasSpecialChars
  THEN (IF ULess(special.firstSingleQuote, kInvalidPos) THEN DQUOTE ELSE SQUOTE)
  ELSE NUL

CreateSafeScalar(scalar) ==
  LET quote == QuoteFor(GetSpecialChars(scalar))
  IN IF quote # NUL THEN <<quote>> \o scalar \o <<quote>> ELSE scalar

\* ---------------------------------------------------------------- state
VARIABLES
  caller,    \* "Parse": a text is parsed; "RoundTrip": a scalar is encoded, then parsed
  scalar,    \* the scalar handed to CreateSafeScalar
  encoded,   \* what CreateSafeScalar returned
  text,      \* the buffer the parser was constructed over
  pastEnd,   \* the byte stored right after the buffer (read only out of bounds)
  curr,      \* curr_
  end,       \* end_
  line,      \* line_
  col,       \* col_
  stack,     \* yamlStack_, bottom first
  complete,  \* completeKeyValuePair_
  indent,    \* the local indent of Parse, while its pop loop runs
  events,    \* the callbacks delivered to the handler, in order
  pc,        \* where the program is
  result     \* what Parse returned: "none" until it returns

vars == <<caller, scalar, encoded, text, pastEnd, curr, end, line, col, stack,
          complete, indent, events, pc, result>>

\* ---------------------------------------------------------------- handler
\* one callback: its kind, its text (key and scalar), what the handler returned
Ev(kind, str, ret) == [kind |-> kind, text |-> str, ret |-> ret]
Void(kind) == Ev(kind, <<>>, TRUE)

\* ---------------------------------------------------------------- parser helpers
\* *p for a position p: inside the buffer its byte; at the position after the
\* buffer whatever is stored there
Byte(p) == IF p <= Len(text) THEN text[p] ELSE pastEnd

\* Indent{}
RootIndent == [level |-> 0, isSequence |-> FALSE]

Top == stack[Len(stack)]

\* std::string_view( start, end - start )
Slice(from, to) == [i \in 1..(to - from) |-> Byte(from + i - 1)]

\* str.remove_suffix( str.size() - ( str.find_last_not_of( ' ' ) + 1 ) )
RECURSIVE TrimTrailing(_)
TrimTrailing(str) ==
  IF str # <<>> /\ str[Len(str)] = SP THEN TrimTrailing(SubSeq(str, 1, Len(str) - 1))
  ELSE str

ExtractStr(from, to, trim) == IF trim THEN TrimTrailing(Slice(from, to)) ELSE Slice(from, to)

PeekNext(p) == IF p + 1 >= end THEN NUL ELSE Byte(p + 1)

\* the loop of GetIndent: where it stops
RECURSIVE IndentRun(_)
IndentRun(p) == IF p < end /\ Byte(p) \in kIndentChars THEN IndentRun(p + 1) ELSE p

\* GetIndent from curr: the Indent it returns and where it leaves the cursor
GetIndent ==
  LET stop == IndentRun(curr)
  IN [level      |-> IF Byte(stop) \in kIgnoreIndent THEN kNoLevel ELSE stop - curr,
      isSequence |-> \E p \in curr..(stop - 1) : Byte(p) = DASH,
      curr       |-> stop]

\* the loop of SkipSpaces, entered at p = curr + 1: where it stops
RECURSIVE SpaceRun(_)
SpaceRun(p) == IF p < end /\ Byte(p) = SP THEN SpaceRun(p + 1) ELSE p

\* the loop of SkipStartDocument, entered after ++curr_ with dashCount = 1
RECURSIVE DashRun(_, _)
DashRun(p, dashCount) ==
  IF p < end /\ Byte(p) = DASH /\ dashCount < 3 THEN DashRun(p + 1, dashCount + 1)
  ELSE [curr |-> p, dashCount |-> dashCount]

\* the loop of SkipLine stepping back twice at the end of the line
RECURSIVE LineRunBackTwo(_)
LineRunBackTwo(p) ==
  IF p < end THEN (IF Byte(p) \in kEndLine THEN p - 2 ELSE LineRunBackTwo(p + 1))
  ELSE p

\* the loop of SkipLine: where it leaves the cursor
RECURSIVE LineRun(_)
LineRun(p) ==
  IF p < end THEN (IF Byte(p) \in kEndLine THEN p - 1 ELSE LineRun(p + 1))
  ELSE p

\* IsNormalChar that never looks at the next byte: every ':' and ',' terminates
IsNormalCharNever(p) == FALSE

IsNormalChar(p) ==
  IF Byte(p) \in {COLON, COMMA} THEN PeekNext(p) \notin kIsWhite ELSE FALSE

\* the loop of ParsePlain: the terminator it stops at, or end
RECURSIVE PlainRun(_)
PlainRun(p) ==
  IF p < end
  THEN (IF Byte(p) \in kEndScalar /\ ~IsNormalChar(p) THEN p ELSE PlainRun(p + 1))
  ELSE p

\* the outer loop of ParseQuoted: the closing quote, or a position >= end
RECURSIVE QuoteRun(_, _)
QuoteRun(p, quote) ==
  IF p < end THEN (IF Byte(p) = quote THEN p ELSE QuoteRun(p + 1, quote))
  ELSE p

\* the inner loop of ParseQuoted: the next important char, or a position >= end
RECURSIVE ImportantRun(_)
ImportantRun(p) ==
  IF p < end THEN (IF Byte(p) \in kImportantChar THEN p ELSE ImportantRun(p + 1))
  ELSE p

\* HandleMissingNull: the callback it makes, the handler answering r
MissingNull(r) == IF ~complete THEN <<Ev("scalar", kNull, r)>> ELSE <<>>

\* StartOf with the two callbacks exchanged
StartOfSwapped(frame) == IF frame.isSequence THEN Void("startMapping") ELSE Void("startSequence")

\* the event Push makes for a frame
StartOf(frame) == IF frame.isSequence THEN Void("startSequence") ELSE Void("startMapping")
\* the event Pop makes for a frame
EndOf(frame) == IF frame.isSequence THEN Void("endSequence") ELSE Void("endMapping")

\* ---------------------------------------------------------------- inputs
\* n lines, line i being i spaces and the scalar "a", after an empty first line
RECURSIVE NestedLines(_)
NestedLines(n) ==
  IF n = 0 THEN <<>>
  ELSE NestedLines(n - 1) \o <<LF>> \o [i \in 1..n |-> SP] \o <<97>>

DeepText == NestedLines(MaxDepth)

\* the texts of the documented examples and of the dispatch cases
Fixtures ==
  { \* a:\n  b: 1\n  c: 2\n
    <<97, 58, 10, 32, 32, 98, 58, 32, 49, 10, 32, 32, 99, 58, 32, 50, 10>>,
    \* key:\n
    <<107, 101, 121, 58, 10>>,
    \* a:\nb:\n
    <<97, 58, 10, 98, 58, 10>>,
    \* \n a:\nb
    <<10, 32, 97, 58, 10, 98>>,
    \* ]   [   {   { a: 1 }
    <<93>>, <<91>>, <<123>>, <<123, 32, 97, 58, 32, 49, 32, 125>>,
    \* [ 1, two, "three" ]
    <<91, 32, 49, 44, 32, 116, 119, 111, 44, 32, 34, 116, 104, 114, 101, 101, 34, 32, 93>>,
    \* --a   ---\t   ---\na   --- a
    <<45, 45, 97>>, <<45, 45, 45, 9>>, <<45, 45, 45, 10, 97>>, <<45, 45, 45, 32, 97>>,
    \* 12:30:45   1,5   a, b
    <<49, 50, 58, 51, 48, 58, 52, 53>>, <<49, 44, 53>>, <<97, 44, 32, 98>>,
    \* # a\tb\n   %a\n   a #\tb
    <<35, 32, 97, 9, 98, 10>>, <<37, 97, 10>>, <<97, 32, 35, 9, 98>>,
    \* key: "abc   "a": 'b'
    <<107, 101, 121, 58, 32, 34, 97, 98, 99>>, <<34, 97, 34, 58, 32, 39, 98, 39>>,
    \* \n- a\n- b\n   - a\n
    <<10, 45, 32, 97, 10, 45, 32, 98, 10>>, <<45, 32, 97, 10>>,
    \* a\r\n   NUL a   !   a\tb   'a'\t
    <<97, 13, 10>>, <<0, 97>>, <<33>>, <<97, 9, 98>>, <<39, 97, 39, 9>>,
    \* \n a:\n  b:\nc:\n
    <<10, 32, 97, 58, 10, 32, 32, 98, 58, 10, 99, 58, 10>>,
    \* a: b #c\n
    <<97, 58, 32, 98, 32, 35, 99, 10>>,
    \* block nesting one level deeper per line, down to MaxDepth levels
    DeepText }

Inputs == SeqsUpTo(Alphabet, MaxLen) \cup Fixtures

Scalars == SeqsUpTo(ScalarAlphabet, MaxScalarLen)

\* ---------------------------------------------------------------- actions
\* YamlParser::YamlParser over the buffer t
Construct(t) ==
  /\ text' = t
  /\ curr' = 1
  /\ end' = Len(t) + 1
  /\ line' = 1
  /\ col' = 0
  /\ stack' = <<RootIndent>>
  /\ complete' = TRUE
  /\ indent' = RootIndent
  /\ events' = <<>>
  /\ result' = "none"

Init ==
  /\ pastEnd \in PastEndBytes
  /\ curr = 1
  /\ line = 1
  /\ col = 0
  /\ stack = <<RootIndent>>
  /\ complete = TRUE
  /\ indent = RootIndent
  /\ events = <<>>
  /\ result = "none"
  /\ encoded = <<>>
  /\ \/ /\ caller = "Parse"
        /\ scalar = <<>>
        /\ text \in Inputs
        /\ end = Len(text) + 1
        /\ pc = "start"
     \/ /\ caller = "RoundTrip"
        /\ scalar \in Scalars
        /\ text = <<>>
        /\ end = 1
        /\ pc = "encode"

\* CreateSafeScalar( scalar ), then a parser constructed over what it returned
Encode ==
  /\ pc = "encode"
  /\ encoded' = CreateSafeScalar(scalar)
  /\ Construct(encoded')
  /\ pc' = "start"
  /\ UNCHANGED <<caller, scalar, pastEnd>>

\* the assertion of CreateSafeScalar fails in a build that keeps assertions
EncodeAssertFails ==
  /\ pc = "encode"
  /\ GetSpecialChars(scalar).hasSpecialChars
  /\ ~QuoteAssertHolds(GetSpecialChars(scalar))
  /\ pc' = "aborted"
  /\ UNCHANGED <<caller, scalar, encoded, text, pastEnd, curr, end, line, col, stack,
                 complete, indent, events, result>>

\* Parse, line 187
StartDocument ==
  /\ pc = "start"
  /\ events' = Append(events, Void("startDocument"))
  /\ pc' = "head"
  /\ UNCHANGED <<caller, scalar, encoded, text, pastEnd, curr, end, line, col, stack,
                 complete, indent, result>>

\* Error( msg ) with the cursor left at c: onError, and false is returned up to
\* the caller of Parse
ErrorAt(c) ==
  /\ events' = Append(events, Void("error"))
  /\ result' = "false"
  /\ pc' = "done"
  /\ curr' = c
  /\ UNCHANGED <<caller, scalar, encoded, text, pastEnd, end, line, col, stack,
                 complete, indent>>

Error == ErrorAt(curr)

\* Pop(): r is what the handler answers to a synthetic null; next is where
\* the caller goes on when Pop returned true
Pop(r, next) ==
  IF Len(stack) = 1 THEN Error
  ELSE /\ events' = events \o MissingNull(r) \o <<EndOf(Top)>>
       /\ complete' = TRUE
       /\ stack' = SubSeq(stack, 1, Len(stack) - 1)
       /\ pc' = next
       /\ UNCHANGED <<caller, scalar, encoded, text, pastEnd, curr, end, line, col,
                      indent, result>>

\* Push( indent ) with room for the frame in mStack
PushFrame(frame) ==
  /\ complete' = TRUE
  /\ stack' = Append(stack, frame)
  /\ events' = Append(events, StartOf(frame))
  /\ pc' = "dispatch"
  /\ UNCHANGED result

\* Push( indent ): YamlStack::push asserts mSize < kMaxStackSize - 1 and then
\* stores into mStack[ mSize++ ], an array of kMaxStackSize frames.  When the
\* assertion does not hold, a build that keeps assertions aborts; a build
\* without them stores the frame, inside the array while mSize is below
\* kMaxStackSize and outside of it otherwise, which is undefined
Push(frame) ==
  IF Len(stack) < kMaxStackSize - 1 THEN PushFrame(frame)
  ELSE \/ /\ pc' = "aborted"
          /\ UNCHANGED <<complete, stack, events, result>>
       \/ IF Len(stack) < kMaxStackSize THEN PushFrame(frame)
          ELSE /\ pc' = "undefined"
               /\ UNCHANGED <<complete, stack, events, result>>

\* the loop test of Parse holds and col_ == 1: GetIndent, then Push or the pop loop
IndentCheck ==
  /\ pc = "head"
  /\ curr < end
  /\ col = 1
  /\ LET g == GetIndent
         frame == [level |-> g.level, isSequence |-> g.isSequence]
     IN /\ curr' = g.curr
        /\ indent' = frame
        /\ IF g.level = kNoLevel
           THEN /\ pc' = "dispatch"
                /\ UNCHANGED <<complete, stack, events, result>>
           ELSE IF g.level > Top.level
           THEN Push(frame)
           ELSE /\ pc' = IF g.level < Top.level THEN "dedent" ELSE "dispatch"
                /\ UNCHANGED <<complete, stack, events, result>>
  /\ UNCHANGED <<caller, scalar, encoded, text, pastEnd, end, line, col>>

\* Dedent with the loop test "indent.level <= yamlStack_.top().level"
DedentWhileNotAbove ==
  /\ pc = "dedent"
  /\ \E r \in BOOLEAN :
       Pop(r, IF indent.level <= stack[Len(stack) - 1].level THEN "dedent" ELSE "dispatch")

\* one turn of the loop "while( indent.level < yamlStack_.top().level )"
Dedent ==
  /\ pc = "dedent"
  /\ \E r \in BOOLEAN :
       Pop(r, IF indent.level < stack[Len(stack) - 1].level THEN "dedent" ELSE "dispatch")

\* the program is at "switch( *curr_ )"
AtSwitch == pc = "dispatch" \/ (pc = "head" /\ curr < end /\ col # 1)

\* the loop step "++curr_, ++col_" after the cursor and column were left at c and k
Resume(c, k) ==
  /\ curr' = c + 1
  /\ col' = k + 1
  /\ pc' = "head"

\* SkipSpaces(), then the loop step
SkipSpaces ==
  LET stop == SpaceRun(curr + 1)
  IN Resume(stop - 1, col + (stop - (curr + 1)) - 1)

\* case '-', next ' '
DashEntry ==
  /\ AtSwitch
  /\ Byte(curr) = DASH
  /\ PeekNext(curr) = SP
  /\ events' = Append(events, Void("startMapping"))
  /\ SkipSpaces
  /\ UNCHANGED <<caller, scalar, encoded, text, pastEnd, end, line, stack, complete,
                 indent, result>>

\* case '-', next '-': SkipStartDocument(), its result dropped
DashDocument ==
  /\ AtSwitch
  /\ Byte(curr) = DASH
  /\ PeekNext(curr) = DASH
  /\ LET d == DashRun(curr + 1, 1)
     IN Resume(d.curr, col + d.dashCount)
  /\ UNCHANGED <<caller, scalar, encoded, text, pastEnd, end, line, stack, complete,
                 indent, events, result>>

\* case ':' and case ','
Separator ==
  /\ AtSwitch
  /\ Byte(curr) \in {COLON, COMMA}
  /\ SkipSpaces
  /\ UNCHANGED <<caller, scalar, encoded, text, pastEnd, end, line, stack, complete,
                 indent, events, result>>

\* case '[' and case '{'
OpenFlow ==
  /\ AtSwitch
  /\ Byte(curr) \in {LBRACKET, LBRACE}
  /\ complete' = TRUE
  /\ events' = Append(events,
                 Void(IF Byte(curr) = LBRACKET THEN "startSequence" ELSE "startMapping"))
  /\ SkipSpaces
  /\ UNCHANGED <<caller, scalar, encoded, text, pastEnd, end, line, stack, indent, result>>

\* case ']' and case '}'
CloseFlow ==
  /\ AtSwitch
  /\ Byte(curr) \in {RBRACKET, RBRACE}
  /\ \E r \in BOOLEAN :
       events' = events \o MissingNull(r)
                   \o <<Void(IF Byte(curr) = RBRACKET THEN "endSequence" ELSE "endMapping")>>
  /\ complete' = TRUE
  /\ SkipSpaces
  /\ UNCHANGED <<caller, scalar, encoded, text, pastEnd, end, line, stack, indent, result>>

\* case '#' and case '%': SkipLine()
SkipLine ==
  /\ AtSwitch
  /\ Byte(curr) \in {HASH, PERCENT}
  /\ Resume(LineRun(curr), col)
  /\ UNCHANGED <<caller, scalar, encoded, text, pastEnd, end, line, stack, complete,
                 indent, events, result>>

\* case '\n'
LineFeed ==
  /\ AtSwitch
  /\ Byte(curr) = LF
  /\ line' = line + 1
  /\ Resume(curr, 0)
  /\ UNCHANGED <<caller, scalar, encoded, text, pastEnd, end, stack, complete,
                 indent, events, result>>

\* case '\r' and case ' '
Blank ==
  /\ AtSwitch
  /\ Byte(curr) \in {CR, SP}
  /\ Resume(curr, col)
  /\ UNCHANGED <<caller, scalar, encoded, text, pastEnd, end, line, stack, complete,
                 indent, events, result>>

\* case '\0'
NullChar ==
  /\ AtSwitch
  /\ Byte(curr) = NUL
  /\ end' = curr
  /\ Resume(curr, col)
  /\ UNCHANGED <<caller, scalar, encoded, text, pastEnd, line, stack, complete,
                 indent, events, result>>

\* case '\t' reporting the error without returning: the loop goes on
TabFallsThrough ==
  /\ AtSwitch
  /\ Byte(curr) = TAB
  /\ events' = Append(events, Void("error"))
  /\ Resume(curr, col)
  /\ UNCHANGED <<caller, scalar, encoded, text, pastEnd, end, line, stack, complete,
                 indent, result>>

\* case '\t'
Tab ==
  /\ AtSwitch
  /\ Byte(curr) = TAB
  /\ Error

\* case '|' ... case '`'
Unsupported ==
  /\ AtSwitch
  /\ Byte(curr) \in kUnsupported
  /\ Error

\* what the code does with the bool a ParseNode call returned, the cursor and
\* the column left at c and k: true goes on with the loop step, false returns false
Returned(ok, c, k) ==
  IF ok THEN Resume(c, k) /\ UNCHANGED result
  ELSE /\ curr' = c
       /\ col' = k
       /\ pc' = "done"
       /\ result' = "false"

\* OutputScalar( str ) with the cursor at p and the column at k; rNull and r are
\* the handler's answers to the synthetic null and to the key or scalar
OutputScalar(str, p, k, rNull, r) ==
  /\ IF Byte(p) = COLON
     THEN /\ events' = events \o MissingNull(rNull) \o <<Ev("key", str, r)>>
          /\ complete' = FALSE
     ELSE /\ events' = Append(events, Ev("scalar", str, r))
          /\ complete' = TRUE
  /\ Returned(r, p - 1, k)

\* the switch goes to ParseNode
IsNode(b) ==
  b \notin {DASH, COLON, COMMA, LBRACKET, RBRACKET, LBRACE, RBRACE, HASH, PERCENT,
            LF, CR, SP, NUL, TAB} \cup kUnsupported

AtNode ==
  /\ AtSwitch
  /\ \/ IsNode(Byte(curr))
     \/ Byte(curr) = DASH /\ PeekNext(curr) \notin {SP, DASH}

\* ParseNode -> ParsePlain
ParsePlain ==
  /\ AtNode
  /\ Byte(curr) \notin {SQUOTE, DQUOTE}
  /\ LET stop == PlainRun(curr)
     IN \E rNull, r \in BOOLEAN :
          IF stop < end
          THEN OutputScalar(ExtractStr(curr, stop, TRUE), stop, col + (stop - curr), rNull, r)
          ELSE /\ complete' = TRUE
               /\ events' = Append(events, Ev("scalar", ExtractStr(curr, stop, TRUE), r))
               /\ Returned(r, stop, col)
  /\ UNCHANGED <<caller, scalar, encoded, text, pastEnd, end, line, stack, indent>>

\* ParseNode -> ParseQuoted( quote )
ParseQuoted ==
  /\ AtNode
  /\ Byte(curr) \in {SQUOTE, DQUOTE}
  /\ LET startStr == curr + 1
         close == QuoteRun(startStr, Byte(curr))
         stop == ImportantRun(close + 1)
     IN IF close < end
        THEN /\ \E rNull, r \in BOOLEAN :
                  OutputScalar(ExtractStr(startStr, close, FALSE), stop,
                               col + (stop - startStr) + kQuoteChars, rNull, r)
             /\ UNCHANGED <<caller, scalar, encoded, text, pastEnd, end, line, stack, indent>>
        ELSE ErrorAt(close)

\* the loop test of Parse fails: one turn of "while( yamlStack_.size() > 1 ) Pop()"
Unwind ==
  /\ pc = "head"
  /\ curr >= end
  /\ Len(stack) > 1
  /\ \E r \in BOOLEAN : Pop(r, "head")

\* the loop test of Parse fails and the stack is unwound: onEndDocument, return true
EndDocument ==
  /\ pc = "head"
  /\ curr >= end
  /\ Len(stack) = 1
  /\ events' = Append(events, Void("endDocument"))
  /\ result' = "true"
  /\ pc' = "done"
  /\ UNCHANGED <<caller, scalar, encoded, text, pastEnd, curr, end, line, col, stack,
                 complete, indent>>

Next ==
  \/ Encode
  \/ EncodeAssertFails
  \/ StartDocument
  \/ IndentCheck
  \/ Dedent
  \/ DashEntry
  \/ DashDocument
  \/ Separator
  \/ OpenFlow
  \/ CloseFlow
  \/ SkipLine
  \/ LineFeed
  \/ Blank
  \/ NullChar
  \/ Tab
  \/ Unsupported
  \/ ParsePlain
  \/ ParseQuoted
  \/ Unwind
  \/ EndDocument

Spec == Init /\ [][Next]_vars

\* Parse is one sequential call: while a step of it is possible, it is taken
LiveSpec == Spec /\ WF_vars(Next)

\* ---------------------------------------------------------------- properties
\* the handler has answered "continue" to every callback so far
AllContinue == \A i \in 1..Len(events) : events[i].ret

KindAt(i) == events[i].kind

CountOf(kind) == Cardinality({i \in 1..Len(events) : KindAt(i) = kind})

\* Parse has returned
ParseReturned == pc = "done"

\* a NUL byte follows the buffer, as it does a buffer taken from a std::string:
\* a read at the end-of-buffer position then sees '\0'
Terminated == pastEnd = NUL

IsPrefixOf(s, t) == Len(s) <= Len(t) /\ \A i \in 1..Len(s) : s[i] = t[i]

\* a:\n  b: 1\n  c: 2\n
NestedMappingText ==
  <<97, 58, 10, 32, 32, 98, 58, 32, 49, 10, 32, 32, 99, 58, 32, 50, 10>>

\* the events the documented example names, after start-document
NestedMappingDocumented ==
  <<Void("startDocument"),
    Void("startMapping"), Ev("key", <<97>>, TRUE),
    Void("startMapping"), Ev("key", <<98>>, TRUE), Ev("scalar", <<49>>, TRUE),
    Ev("key", <<99>>, TRUE), Ev("scalar", <<50>>, TRUE),
    Void("endMapping"), Void("endMapping"), Void("endDocument")>>

\* the same without an event pair for the top-level mapping
NestedMappingImplicitRoot ==
  <<Void("startDocument"),
    Ev("key", <<97>>, TRUE),
    Void("startMapping"), Ev("key", <<98>>, TRUE), Ev("scalar", <<49>>, TRUE),
    Ev("key", <<99>>, TRUE), Ev("scalar", <<50>>, TRUE),
    Void("endMapping"), Void("endDocument")>>

OnNestedMapping == caller = "Parse" /\ text = NestedMappingText /\ AllContinue

\* C1 (as stated): on "a:\n  b: 1\n  c: 2\n" with a handler that always
\* continues, Parse delivers start-mapping, key(a), start-mapping, key(b),
\* scalar(1), key(c), scalar(2), end-mapping, end-mapping, end-document.
C1_Documented ==
  (OnNestedMapping /\ ParseReturned) => events = NestedMappingDocumented

\* C1 (amended): on that input Parse returns true having delivered, in this
\* order, key(a), start-mapping, key(b), scalar(1), key(c), scalar(2),
\* end-mapping, end-document: only the indented mapping gets a start and an
\* end event, the top-level mapping gets neither.  At every moment of the
\* parse the events delivered so far are a prefix of that list.
C1_ImplicitRoot ==
  OnNestedMapping =>
    /\ IsPrefixOf(events, NestedMappingImplicitRoot)
    /\ ParseReturned => (events = NestedMappingImplicitRoot /\ result = "true")

C1_Witness == OnNestedMapping /\ ParseReturned /\ CountOf("endMapping") = 1

\* last-opened-first-closed: walk the events from i with the open collections
RECURSIVE NestOK(_, _)
NestOK(i, open) ==
  IF i > Len(events) THEN open = <<>>
  ELSE IF KindAt(i) \in {"startSequence", "startMapping"}
       THEN NestOK(i + 1, Append(open, KindAt(i)))
  ELSE IF KindAt(i) \in {"endSequence", "endMapping"}
       THEN /\ open # <<>>
            /\ open[Len(open)] = (IF KindAt(i) = "endSequence" THEN "startSequence"
                                  ELSE "startMapping")
            /\ NestOK(i + 1, SubSeq(open, 1, Len(open) - 1))
  ELSE NestOK(i + 1, open)

\* C2 (stated for a buffer that a NUL follows): whenever Parse returns true the events are well nested: onStartDocument
\* first and onEndDocument last, each once, and every start of a sequence or
\* mapping closed by the end of the same kind, last opened first closed, with
\* no end that lacks a start.
C2_WellNested ==
  (Terminated /\ result = "true") =>
    /\ Len(events) >= 2
    /\ KindAt(1) = "startDocument"
    /\ KindAt(Len(events)) = "endDocument"
    /\ CountOf("startDocument") = 1
    /\ CountOf("endDocument") = 1
    /\ NestOK(1, <<>>)

\* C3 (stated for a buffer that a NUL follows): in every successful parse each onKey is followed by a value (a scalar,
\* the synthetic "null", or the start of a collection) before the next onKey,
\* end event or onEndDocument.
C3_KeyHasValue ==
  (Terminated /\ result = "true") =>
    \A i \in 1..Len(events) :
      KindAt(i) = "key" =>
        /\ i < Len(events)
        /\ KindAt(i + 1) \in {"scalar", "startSequence", "startMapping"}

\* C4: on the one-byte input "}" (or "]") Parse delivers an onError, returns
\* false, and delivers no onEndMapping (onEndSequence).
C4_UnbalancedCloserFails ==
  (caller = "Parse" /\ text \in {<<RBRACE>>, <<RBRACKET>>} /\ ParseReturned) =>
    /\ result = "false"
    /\ CountOf("error") = 1
    /\ CountOf("endMapping") = 0
    /\ CountOf("endSequence") = 0

\* a tab that no quote character, no '#', no '%' and no NUL precedes: it is
\* outside every quoted scalar, outside every comment and directive line, and
\* before the early end of the text
TabOutsideQuoted(t) ==
  \E p \in 1..Len(t) :
    /\ t[p] = TAB
    /\ \A q \in 1..(p - 1) : t[q] \notin {SQUOTE, DQUOTE, HASH, PERCENT, NUL}

\* C5 (stated for a buffer that a NUL follows): on every input holding a tab outside a quoted scalar, Parse with a
\* handler that always continues delivers an onError and returns false.
C5_TabsRejected ==
  (caller = "Parse" /\ Terminated /\ TabOutsideQuoted(text) /\ ParseReturned /\ AllContinue) =>
    /\ result = "false"
    /\ CountOf("error") >= 1

\* C6: with a handler that always continues, Parse returns false if and only
\* if exactly one onError was delivered; that onError is the last event
\* delivered, and when Parse returns true no onError was delivered.
C6_SingleFinalError ==
  AllContinue =>
    /\ CountOf("error") <= 1
    /\ (result = "false") <=> (CountOf("error") = 1)
    /\ CountOf("error") = 1 => (KindAt(Len(events)) = "error" /\ ParseReturned)
    /\ result = "true" => CountOf("error") = 0

C6_Witness ==
  /\ AllContinue
  /\ result = "false"
  /\ CountOf("error") = 1
  /\ CountOf("key") >= 1

\* C7 (stated for a buffer that a NUL follows): once the handler has returned false from an onKey or onScalar callback,
\* the synthetic "null" included, no further event is delivered and Parse
\* returns false: a callback answered with false is the last event.
C7_StopIsFinal ==
  Terminated =>
    \A i \in 1..Len(events) :
      ~events[i].ret => (i = Len(events) /\ result = "false")

\* a byte the documented rule quotes: below 0x20, above 0x7A, or one of
\* ! " # $ % & ' * , - / : < = > ? @ [ \ ] `
DocumentedSpecial(b) ==
  \/ b < 32
  \/ b > 122
  \/ b \in {33, 34, 35, 36, 37, 38, 39, 42, 44, 45, 47, 58, 60, 61, 62, 63, 64,
            91, 92, 93, 96}

HasSpecial(s) == \E i \in 1..Len(s) : DocumentedSpecial(s[i])
HasSingleQuote(s) == \E i \in 1..Len(s) : s[i] = 39
HasDoubleQuote(s) == \E i \in 1..Len(s) : s[i] = 34
BothQuoteKinds(s) == HasSingleQuote(s) /\ HasDoubleQuote(s)

\* s wrapped in the documented quote
Wrapped(s) ==
  IF HasSingleQuote(s) THEN <<34>> \o s \o <<34>> ELSE <<39>> \o s \o <<39>>

\* s is longer than two bytes, begins with a quote and ends with the same quote
LooksQuoted(s) == Len(s) > 2 /\ s[1] \in {34, 39} /\ s[Len(s)] = s[1]

\* CreateSafeScalar( scalar ) has returned
Encoded == caller = "RoundTrip" /\ pc \notin {"encode", "aborted"}

\* C8 (as stated): for every scalar S holding a byte that needs quoting, and
\* not both quote kinds, CreateSafeScalar(S) is q + S + q, q the double quote
\* if S holds a single quote and the single quote otherwise.
C8_AlwaysWrapped ==
  (Encoded /\ HasSpecial(scalar) /\ ~BothQuoteKinds(scalar)) => encoded = Wrapped(scalar)

\* C8 (amended): the same for every such S that is not already wrapped in
\* matching quotes (longer than two bytes, first byte a quote, last byte the
\* same quote); a scalar so wrapped is returned unchanged.
C8_WrappedUnlessQuoted ==
  (Encoded /\ HasSpecial(scalar) /\ ~BothQuoteKinds(scalar)) =>
    encoded = (IF LooksQuoted(scalar) THEN scalar ELSE Wrapped(scalar))

C8_Witness ==
  /\ Encoded
  /\ HasSingleQuote(scalar)
  /\ ~BothQuoteKinds(scalar)
  /\ ~LooksQuoted(scalar)
  /\ Len(scalar) = 3
  /\ encoded = <<34>> \o scalar \o <<34>>

\* C9: every scalar S, the empty one included, all of whose bytes lie in
\* [0x20, 0x7A] and none of which is special punctuation, is returned
\* unchanged by CreateSafeScalar.
C9_PlainUnchanged ==
  (Encoded /\ ~HasSpecial(scalar)) => encoded = scalar

C9_Witness ==
  /\ Encoded
  /\ ~HasSpecial(scalar)
  /\ Len(scalar) = 3
  /\ \E i \in 1..Len(scalar) : scalar[i] = 122
  /\ encoded = scalar

\* C10: for every scalar S, not holding both quote kinds, whose encoding E
\* begins with a quote, Parse on E delivers exactly one onScalar, whose text
\* is S, and no onKey.
C10_RoundTrip ==
  (/\ caller = "RoundTrip"
   /\ ParseReturned
   /\ ~BothQuoteKinds(scalar)
   /\ encoded # <<>>
   /\ encoded[1] \in {34, 39}) =>
    /\ CountOf("scalar") = 1
    /\ CountOf("key") = 0
    /\ \A i \in 1..Len(events) : KindAt(i) = "scalar" => events[i].text = scalar

\* [ 1, two, "three" ]
FlowSequenceText ==
  <<91, 32, 49, 44, 32, 116, 119, 111, 44, 32, 34, 116, 104, 114, 101, 101, 34, 32, 93>>

\* the events the flow sequence example names, between the document events
FlowSequenceEvents ==
  <<Void("startDocument"),
    Void("startSequence"),
    Ev("scalar", <<49>>, TRUE), Ev("scalar", <<116, 119, 111>>, TRUE),
    Ev("scalar", <<116, 104, 114, 101, 101>>, TRUE),
    Void("endSequence"), Void("endDocument")>>

OnFlowSequence == caller = "Parse" /\ text = FlowSequenceText /\ AllContinue

\* C11: on the flow sequence [ 1, two, "three" ] with a handler that always
\* continues, Parse delivers onStartSequence, then onScalar("1"),
\* onScalar("two"), onScalar("three") in this order (plain elements trimmed,
\* the quoted element without its quotes), then onEndSequence; it delivers no
\* onKey and no other start or end of a collection, and returns true.  At
\* every moment of the parse the events so far are a prefix of that list.
C11_FlowSequence ==
  OnFlowSequence =>
    /\ IsPrefixOf(events, FlowSequenceEvents)
    /\ ParseReturned => (events = FlowSequenceEvents /\ result = "true")

C11_Witness ==
  /\ OnFlowSequence
  /\ ParseReturned
  /\ CountOf("scalar") = 3
  /\ KindAt(Len(events) - 1) = "endSequence"

\* the switch of Parse is at a '-' that a space follows
AtDashSpace == AtSwitch /\ curr < end /\ Byte(curr) = DASH /\ PeekNext(curr) = SP

\* C12: whenever the character dispatch of Parse meets a '-' immediately
\* followed by a space, the one event it delivers is onStartSequence, and the
\* spaces that follow are skipped: the next byte looked at is the first
\* non-space after the dash.
C12_DashSpaceStartsSequence ==
  [][AtDashSpace =>
       /\ events' = Append(events, Void("startSequence"))
       /\ curr' = SpaceRun(curr + 1)]_vars

\* the text begins with two dashes that no third dash follows
ShortMarker(t) ==
  /\ Len(t) >= 2
  /\ t[1] = DASH
  /\ t[2] = DASH
  /\ Len(t) >= 3 => t[3] # DASH

\* C13 (stated for a buffer that a NUL follows): on every input that begins
\* with two dashes and no third, "--a" for one, Parse with a handler that
\* always continues delivers an onError and returns false.
C13_ShortMarkerFatal ==
  (caller = "Parse" /\ Terminated /\ ShortMarker(text) /\ ParseReturned /\ AllContinue) =>
    /\ result = "false"
    /\ CountOf("error") = 1

\* the least 0-based index of s whose byte satisfies Test, the absent sentinel
\* (size_t(-1), held as -1) when there is none
LeastIndex(s, Test(_)) ==
  IF \E i \in 1..Len(s) : Test(s[i])
  THEN (CHOOSE i \in 1..Len(s) : Test(s[i]) /\ \A j \in 1..(i - 1) : ~Test(s[j])) - 1
  ELSE -1

IsSingleQuote(b) == b = 39
IsDoubleQuote(b) == b = 34

\* C14: for every scalar S for which GetSpecialChars reports hasSpecialChars,
\* firstSpecialPos is the least index of S holding a byte that needs quoting,
\* specialChar is the byte at that index, and firstSingleQuote and
\* firstDoubleQuote are the least index of a single and of a double quote in
\* S, the absent sentinel when S has none; also when the byte at index 0
\* occurs again later in S.
C14_FirstPositions ==
  (Encoded /\ GetSpecialChars(scalar).hasSpecialChars) =>
    LET special == GetSpecialChars(scalar)
        first == LeastIndex(scalar, DocumentedSpecial)
    IN /\ special.firstSpecialPos = first
       /\ special.specialChar = scalar[first + 1]
       /\ special.firstSingleQuote = LeastIndex(scalar, IsSingleQuote)
       /\ special.firstDoubleQuote = LeastIndex(scalar, IsDoubleQuote)

\* the levels of the frames grow strictly from the bottom of the stack to its top
LevelsIncrease == \A i \in 1..(Len(stack) - 1) : stack[i].level < stack[i + 1].level

\* C15: in every state of a parse the indent stack holds the sentinel root
\* frame (level 0) at its bottom and the levels of its frames are strictly
\* increasing from bottom to top; Pop is never entered with only the root
\* frame held (the pop loop of Parse runs only under a frame above the new
\* level), so the root is never popped and the "Too many closing braces or
\* brackets" error is never raised.
C15_RootStays ==
  /\ Len(stack) >= 1
  /\ stack[1] = RootIndent
  /\ LevelsIncrease
  /\ pc = "dedent" => (Len(stack) > 1 /\ 0 <= indent.level /\ indent.level < Top.level)

\* the pop loop is about to pop the second of two frames it closes
C15_Witness ==
  /\ pc = "dedent"
  /\ Len(stack) = 2
  /\ CountOf("endMapping") = 1
  /\ indent.level = 0

\* the loop of Parse is at the top of an iteration
AtLoopTop == pc = "head" /\ curr < end

\* the cursor is on the first byte of a line: the first byte of the text, or
\* the byte after a linefeed
AtLineStart == curr = 1 \/ Byte(curr - 1) = LF

\* C16: at the top of every iteration of the loop of Parse, the column
\* counter equals 1 (the indentation check is performed) exactly when the
\* cursor is on the first byte of a line: so the check is made once for each
\* line, the first line and the line after a "---" marker included, and never
\* in the middle of a line.
C16_CheckAtLineStart ==
  (caller = "Parse" /\ AtLoopTop) => ((col = 1) <=> AtLineStart)

\* the byte at position p of the text ends a plain scalar by the documented
\* rule: a tab, CR, LF, ']', '}' or '#', or a ':' or ',' that a space, a CR,
\* a LF, a NUL (the early end of the text) or the end of the text follows
DocumentedTerminator(p) ==
  \/ text[p] \in {9, 13, 10, 93, 125, 35}
  \/ /\ text[p] \in {58, 44}
     /\ p = Len(text) \/ text[p + 1] \in {32, 13, 10, 0}

\* where the plain scalar that begins at position p ends: its terminator, or
\* the position after the text
DocumentedStop(p) ==
  IF \E q \in p..Len(text) : DocumentedTerminator(q)
  THEN CHOOSE q \in p..Len(text) :
         DocumentedTerminator(q) /\ \A q2 \in p..(q - 1) : ~DocumentedTerminator(q2)
  ELSE Len(text) + 1

\* s without the spaces at its end
RECURSIVE WithoutTrailingSpaces(_)
WithoutTrailingSpaces(s) ==
  IF s # <<>> /\ s[Len(s)] = 32 THEN WithoutTrailingSpaces(SubSeq(s, 1, Len(s) - 1)) ELSE s

\* the switch of Parse is at the first byte of a plain scalar
AtPlainScalar == AtNode /\ curr < end /\ Byte(curr) \notin {SQUOTE, DQUOTE}

\* 12:30:45   1,5
TimeText == <<49, 50, 58, 51, 48, 58, 52, 53>>
DecimalText == <<49, 44, 53>>

C18_StackCapped ==
  caller = "Parse" =>
    /\ Len(stack) <= kMaxStackSize - 1
    /\ pc \notin {"aborted", "undefined"}
    /\ (text = DeepText /\ ParseReturned /\ AllContinue) =>
         (result = "false" /\ CountOf("error") = 1)

\* GetIndent, called at the top of this iteration, ends its loop at end_ and
\* then tests *curr_ against kIgnoreIndent
GetIndentReadsAtEnd == AtLoopTop /\ col = 1 /\ IndentRun(curr) >= end

\* the program is at "switch( *curr_ )" after GetIndent left the cursor at end_
SwitchReadsAtEnd == pc = "dispatch" /\ curr >= end

\* ParseQuoted, called from this state, finds the closing quote, finds no
\* important char after it, and OutputScalar then tests *curr_ at end_
OutputScalarReadsAtEnd ==
  /\ AtNode
  /\ curr < end
  /\ Byte(curr) \in {SQUOTE, DQUOTE}
  /\ QuoteRun(curr + 1, Byte(curr)) < end
  /\ ImportantRun(QuoteRun(curr + 1, Byte(curr)) + 1) >= end

\* C19: for every buffer, every byte Parse and its helpers read lies strictly
\* before the end-of-buffer position: the program is never in a state from
\* which GetIndent, the dispatch switch or OutputScalar dereferences the
\* cursor at or past end_.
C19_ReadsInsideBuffer ==
  /\ ~GetIndentReadsAtEnd
  /\ ~SwitchReadsAtEnd
  /\ ~OutputScalarReadsAtEnd

\* the program has stopped: Parse returned, or the process left defined
\* behaviour at an assertion or at a store outside the stack
Stopped == pc \in {"done", "aborted", "undefined"}

\* one step never moves the cursor back, and a step that ends an iteration of
\* the loop of Parse (the dispatch, then the loop step) leaves the cursor
\* strictly beyond where it was
CursorAdvances ==
  /\ curr' >= curr
  /\ (AtSwitch /\ pc' = "head") => curr' > curr

\* C20: Parse terminates on every input: SkipSpaces, SkipLine and
\* OutputScalar step the cursor back by one, yet the cursor at the start of
\* each iteration of the main loop is strictly greater than at the start of
\* the one before, and the parse eventually stops.
C20_Terminates == [][CursorAdvances]_vars /\ <>Stopped

\* a: b #c\n
StepBackText == <<97, 58, 32, 98, 32, 35, 99, 10>>

\* a parse in which OutputScalar, SkipSpaces and SkipLine each stepped back
\* has returned
C20_Witness ==
  /\ caller = "Parse"
  /\ text = StepBackText
  /\ ParseReturned
  /\ result = "true"
  /\ curr >= end
  /\ events = <<Void("startDocument"), Ev("key", <<97>>, TRUE), Ev("scalar", <<98>>, TRUE),
                Void("endDocument")>>

====
